---- MODULE Spec2Model ----
(***************************************************************************)
(* A model of scc::HashIndex (src/src/hashindex.rs): its hashing, the cell *)
(* reservation and locking protocol, resize, and the public operations.    *)
(* The Array and Cell collaborators (mod array, mod cell) are modelled     *)
(* from their documented interface.                                        *)
(***************************************************************************)
EXTENDS Integers, Sequences, FiniteSets, TLC

(***************************************************************************)
(* Program constants.                                                      *)
(***************************************************************************)
DEFAULT_CAPACITY == 64

ARRAY_SIZE == 8

MAX_RESIZING_FACTOR == 6

(***************************************************************************)
(* Bounds of the model.                                                    *)
(***************************************************************************)
\* Width of usize in the model (the capacity arithmetic is taken modulo 2^UsizeBits).
UsizeBits == 16

\* Array generations that can be allocated in one run (the initial one included).
MaxArrays == 3

\* Old cells one call of partial_rehash migrates at most.
RehashBatch == 8

Threads == {1, 2}

\* Keys, in the order in which the callers first use them. With the pass-through
\* hasher below all of them select cell 0 of a 16-cell and of an 8-cell array.
KeyOrder == <<3, 8, 13, 16, 27, 50, 104, 124>>

Keys == {KeyOrder[i] : i \in 1..Len(KeyOrder)}

\* Capacities given to HashIndex::new.
InitCapacities == {64, 100}

\* A capacity that gives an array of 32 cells, and keys that all select cell 22
\* of it, in the order in which the callers first use them on such an index.
SignalCapacity == 200

SignalKeyOrder == <<6, 9, 15, 25, 31, 48, 77, 80, 105>>

SignalKeys == {SignalKeyOrder[i] : i \in 1..Len(SignalKeyOrder)}

(***************************************************************************)
(* 64-bit words: tuples of 8 bytes, least significant first.               *)
(***************************************************************************)
Pow2(n) == 2 ^ n

\* The element of a one-element set: {e(v) : v \in {x}} computes x once.
Only(S) == CHOOSE v \in S : TRUE

Bit(x, i) == (x[(i \div 8) + 1] \div Pow2(i % 8)) % 2

Pack(b) ==
    [j \in 1..8 |->
        LET o == 8 * (j - 1)
        IN  b[o] + 2 * b[o + 1] + 4 * b[o + 2] + 8 * b[o + 3]
            + 16 * b[o + 4] + 32 * b[o + 5] + 64 * b[o + 6] + 128 * b[o + 7]]

RECURSIVE Limbs(_, _)
Limbs(n, j) == IF j = 0 THEN <<>> ELSE <<n % 256>> \o Limbs(n \div 256, j - 1)

\* A number below 2^31 as a 64-bit word.
U64(n) == Limbs(n, 8)

RotateRight(x, n) ==
    Only({Pack([i \in 0..63 |-> Bit(v, (i + n) % 64)]) : v \in {x}})

ShiftRight(x, n) ==
    Only({Pack([i \in 0..63 |-> IF i + n < 64 THEN Bit(v, i + n) ELSE 0]) : v \in {x}})

Xor64(x, y) ==
    Only({Pack([i \in 0..63 |-> (Bit(v, i) + Bit(w, i)) % 2]) : v \in {x}, w \in {y}})

RECURSIVE MulLimbs(_, _, _, _)
MulLimbs(x, c, k, carry) ==
    IF k > 8 THEN <<>>
    ELSE LET RECURSIVE Dot(_)
             Dot(i) == IF i > k THEN 0 ELSE x[i] * c[k + 1 - i] + Dot(i + 1)
         IN  Only({<<s % 256>> \o MulLimbs(x, c, k + 1, s \div 256) :
                      s \in {Dot(1) + carry}})

\* u64::overflowing_mul(c).0
OverflowingMul(x, c) == Only({MulLimbs(v, c, 1, 0) : v \in {x}})

\* 0xA24BAED4963EE407 and 0x9FB21C651E98DF25
MixMul1 == <<7, 228, 62, 150, 212, 174, 75, 162>>

MixMul2 == <<37, 223, 152, 30, 101, 28, 178, 159>>

\* The mixing steps of hash (lines 223-228), each applied to the value of the
\* step before it.
Bitmix(h0) ==
    LET h1 == {Xor64(h, Xor64(RotateRight(h, 25), RotateRight(h, 50))) : h \in {h0}}
        h2 == {OverflowingMul(h, MixMul1) : h \in h1}
        h3 == {Xor64(h, Xor64(RotateRight(h, 24), RotateRight(h, 49))) : h \in h2}
        h4 == {OverflowingMul(h, MixMul2) : h \in h3}
    IN  Only({Xor64(h, ShiftRight(h, 28)) : h \in h4})

\* hash & ((1 << 8) - 1)
Low8(h) == h[1]

\* The build hasher: a pass-through hasher whose finish() is the key itself.
Finish(key) == U64(key)

\* A hash whose partial hash is the top byte of the mixed hash.
HashPartialFromTop(key) == Only({<<h, h[8]>> : h \in {Bitmix(Finish(key))}})

\* HashIndex::hash: <<hash, partial_hash>>
hash(key) == Only({<<h, Low8(h)>> : h \in {Bitmix(Finish(key))}})

\* hash over the keys of the model, computed once.
HashTable == [k \in Keys \cup SignalKeys |-> hash(k)]

\* A word modulo n, for n below 2^22.
RECURSIVE ModFrom(_, _, _)
ModFrom(h, n, j) == IF j > 8 THEN 0 ELSE (h[j] + 256 * ModFrom(h, n, j + 1)) % n

Mod64(h, n) == ModFrom(h, n, 1)

(***************************************************************************)
(* usize arithmetic.                                                       *)
(***************************************************************************)
UsizeMod == Pow2(UsizeBits)

RECURSIVE PowerOfTwoAtLeast(_, _)
PowerOfTwoAtLeast(n, p) == IF p >= n THEN p ELSE PowerOfTwoAtLeast(n, 2 * p)

\* usize::next_power_of_two in a release build: 0 when the result does not fit.
NextPowerOfTwo(n) == PowerOfTwoAtLeast(n, 1) % UsizeMod

Max(a, b) == IF a >= b THEN a ELSE b

Min(a, b) == IF a <= b THEN a ELSE b

(***************************************************************************)
(* The Cell collaborator.                                                  *)
(***************************************************************************)
\* An entry is <<key, value, partial_hash>>.
EmptyCell == [entries |-> {}, locked |-> FALSE, killed |-> FALSE]

\* Cell::num_entries
NumEntries(cell) == Cardinality(cell.entries)

HasKey(cell, key) == \E e \in cell.entries : e[1] = key

\* CellLocker::insert: the entries after the call and whether it inserted.
CellInsert(cell, key, value, partial_hash) ==
    IF HasKey(cell, key)
    THEN <<cell, FALSE>>
    ELSE <<[cell EXCEPT !.entries = @ \cup {<<key, value, partial_hash>>}], TRUE>>

(***************************************************************************)
(* The Array collaborator.                                                 *)
(***************************************************************************)
NullArray == 0

NumCellsFor(capacity) == PowerOfTwoAtLeast((capacity + ARRAY_SIZE - 1) \div ARRAY_SIZE, 1)

\* Array::new
ArrayNew(capacity, old_array) ==
    [num_cells |-> NumCellsFor(capacity),
     old_array |-> old_array,
     cells |-> [i \in 0..(NumCellsFor(capacity) - 1) |-> EmptyCell]]

\* Array::capacity
Capacity(a) == a.num_cells * ARRAY_SIZE

\* Array::num_sample_size
NumSampleCells == 1

NumSampleSize(a) == Min(NumSampleCells, a.num_cells)

\* Array::calculate_cell_index
CalculateCellIndex(a, h) == Mod64(h, a.num_cells)

\* The cells of `cur` that the entries of cell i of `old` move to.
Targets(as, cur, old, i) ==
    {CalculateCellIndex(as[cur], HashTable[e[1]][1]) : e \in as[old].cells[i].entries}

\* The cells of `cur` that cell i of `old` moves to can all be locked.
TargetsFree(as, cur, old, i) ==
    \A j \in Targets(as, cur, old, i) :
        ~as[cur].cells[j].locked /\ ~as[cur].cells[j].killed

\* The cells S of `old` are killed: their entries are rehashed into `cur`, the
\* cells are marked killed and their locks are released.
KillCells(as, cur, old, S) ==
    LET leaving == UNION {as[old].cells[i].entries : i \in S}
        moved(j) ==
            {<<e[1], e[2], HashTable[e[1]][2]>> :
                e \in {x \in leaving : CalculateCellIndex(as[cur], HashTable[x[1]][1]) = j}}
    IN  [as EXCEPT
            ![cur].cells = [j \in DOMAIN @ |-> [@[j] EXCEPT !.entries = @ \cup moved(j)]],
            ![old].cells = [i \in DOMAIN @ |->
                              IF i \in S
                              THEN [entries |-> {}, locked |-> FALSE, killed |-> TRUE]
                              ELSE @[i]]]

\* Array::kill_cell on cell i of `old`.
KillCell(as, cur, old, i) == KillCells(as, cur, old, {i})

\* The cells of `old` that one call of partial_rehash migrates: of the first
\* RehashBatch cells that are not killed, those it can lock at once.
Movable(as, cur, old) ==
    LET unkilled == {i \in DOMAIN as[old].cells : ~as[old].cells[i].killed}
        batch == {i \in unkilled :
                    Cardinality({j \in unkilled : j < i}) < RehashBatch}
    IN  {i \in batch : ~as[old].cells[i].locked /\ TargetsFree(as, cur, old, i)}

\* The old array of `cur` is detached when all its cells are killed.
DetachWhenDone(as0, cur, old) ==
    Only({IF \A i \in DOMAIN as[old].cells : as[old].cells[i].killed
          THEN <<[as EXCEPT ![cur].old_array = NullArray], TRUE>>
          ELSE <<as, FALSE>> : as \in {as0}})

\* Array::partial_rehash: <<arrays after the call, progress made>>. It migrates
\* the movable cells and detaches the old array when all its cells are killed.
PartialRehash(as, cur) ==
    LET old == as[cur].old_array
        Rehashed(movable) ==
            Only({<<r[1], movable # {} \/ r[2]>> :
                    r \in {DetachWhenDone(KillCells(as, cur, old, movable), cur, old)}})
    IN  IF old = NullArray THEN <<as, FALSE>>
        ELSE Only({Rehashed(movable) : movable \in {Movable(as, cur, old)}})

(***************************************************************************)
(* HashIndex::resize, the capacity computation (lines 339-370).            *)
(***************************************************************************)
MaxCapacity == Pow2(UsizeBits - 1)

EstimatedNumEntries(num_cells) ==
    LET num_cells_to_sample ==
            Min(Max(num_cells \div 8, DEFAULT_CAPACITY \div ARRAY_SIZE), 4096)
    IN  num_cells \div num_cells_to_sample

\* NewCapacity without the bound on the growth factor.
NewCapacityUnbounded(capacity, estimated_num_entries, min_capacity) ==
    IF estimated_num_entries >= (capacity \div 8) * 7
    THEN IF capacity = MaxCapacity THEN capacity
         ELSE IF estimated_num_entries <= (capacity \div 8) * 9
         THEN (capacity * 2) % UsizeMod
         ELSE (Min(NextPowerOfTwo(estimated_num_entries), MaxCapacity \div 2) * 2)
                  % UsizeMod
    ELSE IF estimated_num_entries <= capacity \div 8
    THEN Max(NextPowerOfTwo(estimated_num_entries), min_capacity)
    ELSE capacity

NewCapacity(capacity, estimated_num_entries, min_capacity) ==
    IF estimated_num_entries >= (capacity \div 8) * 7
    THEN IF capacity = MaxCapacity THEN capacity
         ELSE IF estimated_num_entries <= (capacity \div 8) * 9
         THEN (capacity * 2) % UsizeMod
         ELSE LET new_capacity_candidate ==
                      (Min(NextPowerOfTwo(estimated_num_entries), MaxCapacity \div 2) * 2)
                          % UsizeMod
              IN  IF new_capacity_candidate \div capacity > Pow2(MAX_RESIZING_FACTOR)
                  THEN (capacity * Pow2(MAX_RESIZING_FACTOR)) % UsizeMod
                  ELSE new_capacity_candidate
    ELSE IF estimated_num_entries <= capacity \div 8
    THEN Max(NextPowerOfTwo(estimated_num_entries), min_capacity)
    ELSE capacity

\* Whether an operation of that computation overflows usize (a panic in a debug
\* build, a wrapped value in a release build).
NewCapacityOverflows(capacity, estimated_num_entries) ==
    /\ estimated_num_entries >= (capacity \div 8) * 7
    /\ capacity # MaxCapacity
    /\ IF estimated_num_entries <= (capacity \div 8) * 9
       THEN capacity * 2 >= UsizeMod
       ELSE LET next == PowerOfTwoAtLeast(estimated_num_entries, 1)
                candidate == Min(next % UsizeMod, MaxCapacity \div 2) * 2
            IN  \/ next >= UsizeMod
                \/ candidate >= UsizeMod
                \/ /\ candidate \div capacity > Pow2(MAX_RESIZING_FACTOR)
                   /\ capacity * Pow2(MAX_RESIZING_FACTOR) >= UsizeMod

(***************************************************************************)
(* State.                                                                  *)
(***************************************************************************)
VARIABLES
    arrays,            \* the Array generations allocated so far, by address 1, 2, ...
    array,             \* HashIndex::array, the address of the current Array
    minimum_capacity,  \* HashIndex::minimum_capacity
    resize_mutex,      \* HashIndex::resize_mutex
    th,                \* each thread's call in progress and its local variables
    okCount,           \* history: per key, the insert calls that returned Ok
    used,              \* history: how many keys of the key order have been used
    hist,              \* history: what each thread observed earlier in its call
    rz                 \* the capacity computation of resize taken alone (SpecResize)

vars == <<arrays, array, minimum_capacity, resize_mutex, th, okCount, used, hist, rz>>

\* A thread that is not inside a call. current_array and old_array hold the locals
\* of that name of lock, reserve and resize, whichever is running.
IdleThread ==
    [pc |-> "idle", op |-> "none", key |-> 0, value |-> 0, pred |-> "none",
     hsh |-> <<>>, partial_hash |-> 0, resize_triggered |-> FALSE,
     current_array |-> NullArray, old_array |-> NullArray,
     locker |-> <<>>, cell_index |-> 0, i |-> 0, num_entries |-> 0,
     memory_ordering |-> "none", res |-> <<>>, pre |-> <<>>]

\* Nothing observed: reserve_array is the array reserve loaded before it sampled
\* (its local current_array, alive while resize runs), seen the version of the
\* array pointer and migration state when lock returned the cell that tripped
\* the resize signal (0: none).
NoHist == [reserve_array |-> NullArray, seen |-> 0]

\* HashIndex::new
New(capacity) ==
    LET initial_capacity == Max(capacity, DEFAULT_CAPACITY)
    IN  /\ arrays = <<ArrayNew(initial_capacity, NullArray)>>
        /\ array = 1
        /\ minimum_capacity = initial_capacity
        /\ resize_mutex = FALSE
        /\ th = [t \in Threads |-> IdleThread]
        /\ okCount = [k \in (IF capacity = SignalCapacity THEN SignalKeys ELSE Keys) |-> 0]
        /\ used = 0
        /\ hist = [t \in Threads |-> NoHist]

Init ==
    /\ \E capacity \in InitCapacities : New(capacity)
    /\ rz = <<>>

\* The index has been dropped.
Dropped == \E u \in Threads : th[u].pc = "dropped"

Callable(t) == th[t].pc \in {"idle", "ret"} /\ ~Dropped

\* The keys a caller may pass: the first and the latest of those used before, and
\* the next one of the key order of the index.
Order == IF minimum_capacity = SignalCapacity THEN SignalKeyOrder ELSE KeyOrder

Usable == {Order[n] : n \in {1, used, used + 1} \cap (1..Len(Order))}

Used == {Order[n] : n \in 1..used}

\* The value a caller passes with key k: 1, and 2 in the later calls for the first
\* key.
ValueFor(k) == IF k = Order[1] /\ k \in Used THEN 2 ELSE 1

UseKey(k) ==
    used' = IF used < Len(Order) /\ k = Order[used + 1] THEN used + 1 ELSE used

(***************************************************************************)
(* insert -> reserve -> lock                                               *)
(***************************************************************************)
\* HashIndex::insert is called; reserve computes the hash (lines 111-113, 241-242).
InsertCall(t) ==
    /\ Callable(t)
    /\ \E k \in Usable :
        /\ th' = [th EXCEPT ![t] =
                    [IdleThread EXCEPT !.pc = "lock", !.op = "insert", !.key = k,
                        !.value = ValueFor(k), !.hsh = HashTable[k][1], !.partial_hash = HashTable[k][2]]]
        /\ UseKey(k)
    /\ UNCHANGED <<arrays, array, minimum_capacity, resize_mutex, okCount, rz>>

\* lock: loads the current array and its old array (lines 284-287).
LockLoad(t) ==
    /\ th[t].pc = "lock"
    /\ th' = [th EXCEPT ![t] =
                [@ EXCEPT !.current_array = array,
                          !.old_array = arrays[array].old_array,
                          !.pc = IF arrays[array].old_array # NullArray
                                 THEN "rehash" ELSE "lock_cell"]]
    /\ UNCHANGED <<arrays, array, minimum_capacity, resize_mutex, okCount, used, rz>>

\* lock: partial_rehash, and the restart when it made progress (lines 288-290).
LockRehash(t) ==
    /\ th[t].pc = "rehash"
    /\ \E r \in {PartialRehash(arrays, th[t].current_array)} :
           /\ arrays' = r[1]
           /\ th' = [th EXCEPT ![t].pc = IF r[2] THEN "lock" ELSE "lock_old"]
    /\ UNCHANGED <<array, minimum_capacity, resize_mutex, okCount, used, rz>>

\* lock: CellLocker::lock on the old array's cell (lines 291-295). The call waits
\* while another thread holds the cell and yields None when the cell is killed.
LockOld(t) ==
    /\ th[t].pc = "lock_old"
    /\ LET old == th[t].old_array
           cell_index == CalculateCellIndex(arrays[old], th[t].hsh)
           cell == arrays[old].cells[cell_index]
       IN  IF cell.killed
           THEN /\ th' = [th EXCEPT ![t].pc = "lock_cell"]
                /\ UNCHANGED arrays
           ELSE /\ ~cell.locked
                /\ arrays' = [arrays EXCEPT ![old].cells[cell_index].locked = TRUE]
                /\ th' = [th EXCEPT ![t] =
                            [@ EXCEPT !.pc = "kill", !.locker = <<old, cell_index>>]]
    /\ UNCHANGED <<array, minimum_capacity, resize_mutex, okCount, used, rz>>

\* lock: kill_cell on the locked old cell; the locker is dropped (lines 296-304).
LockKill(t) ==
    /\ th[t].pc = "kill"
    /\ LET cur == th[t].current_array
           old == th[t].locker[1]
           cell_index == th[t].locker[2]
       IN  /\ TargetsFree(arrays, cur, old, cell_index)
           /\ arrays' = KillCell(arrays, cur, old, cell_index)
    /\ th' = [th EXCEPT ![t] = [@ EXCEPT !.pc = "lock_cell", !.locker = <<>>]]
    /\ UNCHANGED <<array, minimum_capacity, resize_mutex, okCount, used, rz>>

\* reserve's resize signal without the test of resize_triggered.
ResizeSignalRepeats(t, cell_index, cell) ==
    /\ cell_index < ARRAY_SIZE
    /\ NumEntries(cell) >= ARRAY_SIZE

\* reserve's resize signal without the test of the cell index.
ResizeSignalAnyCell(t, cell_index, cell) ==
    /\ ~th[t].resize_triggered
    /\ NumEntries(cell) >= ARRAY_SIZE

\* reserve's resize signal on the cell lock has returned (lines 245-247).
ResizeSignal(t, cell_index, cell) ==
    /\ ~th[t].resize_triggered
    /\ cell_index < ARRAY_SIZE
    /\ NumEntries(cell) >= ARRAY_SIZE

\* lock that restarts its loop when the current cell is held by another thread.
LockCellRestartsWhenHeld(t) ==
    /\ th[t].pc = "lock_cell"
    /\ LET cur == th[t].current_array
           cell_index == CalculateCellIndex(arrays[cur], th[t].hsh)
           cell == arrays[cur].cells[cell_index]
       IN  IF cell.killed \/ cell.locked
           THEN /\ th' = [th EXCEPT ![t] =
                            [@ EXCEPT !.pc = "lock", !.current_array = NullArray,
                                      !.old_array = NullArray]]
                /\ UNCHANGED arrays
           ELSE /\ arrays' = [arrays EXCEPT ![cur].cells[cell_index].locked = TRUE]
                /\ th' = [th EXCEPT ![t] =
                            [@ EXCEPT !.pc = IF ResizeSignal(t, cell_index, cell)
                                             THEN "drop" ELSE "insert",
                                      !.locker = <<cur, cell_index>>,
                                      !.cell_index = cell_index,
                                      !.current_array = NullArray,
                                      !.old_array = NullArray]]
    /\ UNCHANGED <<array, minimum_capacity, resize_mutex, okCount, used, rz>>

\* lock: CellLocker::lock on the current array's cell (lines 306-313), and, once
\* it is locked, reserve's test of the resize signal (lines 244-248, 269).
LockCell(t) ==
    /\ th[t].pc = "lock_cell"
    /\ LET cur == th[t].current_array
           cell_index == CalculateCellIndex(arrays[cur], th[t].hsh)
           cell == arrays[cur].cells[cell_index]
       IN  IF cell.killed
           THEN /\ th' = [th EXCEPT ![t] =
                            [@ EXCEPT !.pc = "lock", !.current_array = NullArray,
                                      !.old_array = NullArray]]
                /\ UNCHANGED arrays
           ELSE /\ ~cell.locked
                /\ arrays' = [arrays EXCEPT ![cur].cells[cell_index].locked = TRUE]
                /\ th' = [th EXCEPT ![t] =
                            [@ EXCEPT !.pc = IF ResizeSignal(t, cell_index, cell)
                                             THEN "drop" ELSE "insert",
                                      !.locker = <<cur, cell_index>>,
                                      !.cell_index = cell_index,
                                      !.current_array = NullArray,
                                      !.old_array = NullArray]]
    /\ UNCHANGED <<array, minimum_capacity, resize_mutex, okCount, used, rz>>

(***************************************************************************)
(* reserve: the resize signal                                              *)
(***************************************************************************)
\* reserve: drop(cell_locker); resize_triggered = true (lines 249-250).
Drop(t) ==
    /\ th[t].pc = "drop"
    /\ arrays' = [arrays EXCEPT ![th[t].locker[1]].cells[th[t].locker[2]].locked = FALSE]
    /\ th' = [th EXCEPT ![t] =
                [@ EXCEPT !.pc = "rsv_load", !.locker = <<>>, !.resize_triggered = TRUE]]
    /\ UNCHANGED <<array, minimum_capacity, resize_mutex, okCount, used, rz>>

\* reserve that samples the array it loads whether or not an old array is
\* attached to it.
ReserveLoadAlwaysSamples(t) ==
    /\ th[t].pc = "rsv_load"
    /\ th' = [th EXCEPT ![t] =
                [@ EXCEPT !.pc = "sample", !.current_array = array,
                          !.i = 0, !.num_entries = 0]]
    /\ UNCHANGED <<arrays, array, minimum_capacity, resize_mutex, okCount, used, rz>>

\* reserve: loads the current array and tests its old array (lines 251-254, 267).
ReserveLoad(t) ==
    /\ th[t].pc = "rsv_load"
    /\ th' = [th EXCEPT ![t] =
                IF arrays[array].old_array = NullArray
                THEN [@ EXCEPT !.pc = "sample", !.current_array = array,
                               !.i = 0, !.num_entries = 0]
                ELSE [@ EXCEPT !.pc = "lock"]]
    /\ UNCHANGED <<arrays, array, minimum_capacity, resize_mutex, okCount, used, rz>>

\* reserve: one pass of the sampling loop (lines 256-265).
Sample(t) ==
    /\ th[t].pc = "sample"
    /\ LET a == arrays[th[t].current_array]
           sample_size == NumSampleSize(a)
           threshold == sample_size * (ARRAY_SIZE \div 8) * 7
           num_entries == th[t].num_entries + NumEntries(a.cells[th[t].i])
       IN  th' = [th EXCEPT ![t] =
                    IF num_entries > threshold
                    THEN [@ EXCEPT !.pc = "rz_load", !.current_array = NullArray,
                                   !.i = 0, !.num_entries = 0]
                    ELSE IF th[t].i + 1 < sample_size
                    THEN [@ EXCEPT !.i = @ + 1, !.num_entries = num_entries]
                    ELSE [@ EXCEPT !.pc = "lock", !.current_array = NullArray,
                                   !.i = 0, !.num_entries = 0]]
    /\ UNCHANGED <<arrays, array, minimum_capacity, resize_mutex, okCount, used, rz>>

(***************************************************************************)
(* resize                                                                  *)
(***************************************************************************)
\* resize: loads the current array and its old array (lines 319-325).
ResizeLoad(t) ==
    /\ th[t].pc = "rz_load"
    /\ th' = [th EXCEPT ![t] =
                [@ EXCEPT !.pc = "rz_swap", !.current_array = array,
                          !.old_array = arrays[array].old_array]]
    /\ UNCHANGED <<arrays, array, minimum_capacity, resize_mutex, okCount, used, rz>>

\* resize that enters the guarded section whether or not the flag is held.
ResizeSwapUnguarded(t) ==
    /\ th[t].pc = "rz_swap"
    /\ resize_mutex' = TRUE
    /\ th' = [th EXCEPT ![t] =
                [@ EXCEPT !.pc = "rz_check", !.memory_ordering = "Relaxed"]]
    /\ UNCHANGED <<arrays, array, minimum_capacity, okCount, used, rz>>

\* resize: resize_mutex.swap(true, Acquire) and the guard's creation (lines 327-331).
ResizeSwap(t) ==
    /\ th[t].pc = "rz_swap"
    /\ IF resize_mutex
       THEN /\ th' = [th EXCEPT ![t] =
                        [@ EXCEPT !.pc = "lock", !.current_array = NullArray,
                                  !.old_array = NullArray]]
            /\ UNCHANGED resize_mutex
       ELSE /\ resize_mutex' = TRUE
            /\ th' = [th EXCEPT ![t] =
                        [@ EXCEPT !.pc = "rz_check", !.memory_ordering = "Relaxed"]]
    /\ UNCHANGED <<arrays, array, minimum_capacity, okCount, used, rz>>

\* The capacity resize asks for, given the array it loaded (lines 339-370).
ResizeDecision(capacity, num_cells, min_capacity) ==
    NewCapacity(capacity, EstimatedNumEntries(num_cells), min_capacity)

ResizeCapacity(a) == ResizeDecision(Capacity(a), a.num_cells, minimum_capacity)

\* resize whose early return on a stale pointer skips the scope guard.
ResizeCheckKeepsFlag(t) ==
    /\ th[t].pc = "rz_check"
    /\ th' = [th EXCEPT ![t] =
                IF th[t].current_array # array
                THEN [@ EXCEPT !.pc = "lock", !.current_array = NullArray,
                               !.old_array = NullArray, !.memory_ordering = "none"]
                ELSE [@ EXCEPT !.pc =
                        IF ResizeCapacity(arrays[array]) # Capacity(arrays[array])
                        THEN "rz_store" ELSE "rz_unlock"]]
    /\ UNCHANGED <<arrays, array, minimum_capacity, resize_mutex, okCount, used, rz>>

\* resize: the stale check and the capacity decision (lines 332-373).
ResizeCheck(t) ==
    /\ th[t].pc = "rz_check"
    /\ th' = [th EXCEPT ![t].pc =
                IF th[t].current_array # array THEN "rz_unlock"
                ELSE IF ResizeCapacity(arrays[array]) # Capacity(arrays[array])
                THEN "rz_store" ELSE "rz_unlock"]
    /\ UNCHANGED <<arrays, array, minimum_capacity, resize_mutex, okCount, used, rz>>

\* resize that stores the new array and leaves the guard's ordering as it is.
ResizeStoreRelaxed(t) ==
    /\ th[t].pc = "rz_store"
    /\ Len(arrays) < MaxArrays
    /\ arrays' = Append(arrays,
                    ArrayNew(ResizeCapacity(arrays[th[t].current_array]),
                             th[t].current_array))
    /\ array' = Len(arrays) + 1
    /\ th' = [th EXCEPT ![t].pc = "rz_unlock"]
    /\ UNCHANGED <<minimum_capacity, resize_mutex, okCount, used, rz>>

\* resize: the new array is allocated and stored (lines 374-382).
ResizeStore(t) ==
    /\ th[t].pc = "rz_store"
    /\ Len(arrays) < MaxArrays
    /\ arrays' = Append(arrays,
                    ArrayNew(ResizeCapacity(arrays[th[t].current_array]),
                             th[t].current_array))
    /\ array' = Len(arrays) + 1
    /\ th' = [th EXCEPT ![t] = [@ EXCEPT !.pc = "rz_unlock", !.memory_ordering = "Release"]]
    /\ UNCHANGED <<minimum_capacity, resize_mutex, okCount, used, rz>>

\* resize: the scope guard stores false into resize_mutex (lines 329-331); reserve
\* goes back to the head of its loop (line 267).
ResizeUnlock(t) ==
    /\ th[t].pc = "rz_unlock"
    /\ resize_mutex' = FALSE
    /\ th' = [th EXCEPT ![t] =
                [@ EXCEPT !.pc = "lock", !.current_array = NullArray,
                          !.old_array = NullArray, !.memory_ordering = "none"]]
    /\ UNCHANGED <<arrays, array, minimum_capacity, okCount, used, rz>>

(***************************************************************************)
(* The public operations                                                   *)
(***************************************************************************)
Returned(t, res, pre) ==
    [IdleThread EXCEPT !.pc = "ret", !.op = th[t].op, !.key = th[t].key,
                       !.value = th[t].value, !.res = res, !.pre = pre]

\* insert that stores the value it was given over the entry of an existing key
\* before it returns Err.
InsertCellOverwrite(t) ==
    /\ th[t].pc = "insert"
    /\ LET a == th[t].locker[1]
           cell_index == th[t].locker[2]
           cell == arrays[a].cells[cell_index]
           r == CellInsert(cell, th[t].key, th[t].value, th[t].partial_hash)
           overwritten ==
               [cell EXCEPT !.entries =
                   {e \in @ : e[1] # th[t].key}
                       \cup {<<th[t].key, th[t].value, th[t].partial_hash>>}]
       IN  /\ arrays' = [arrays EXCEPT ![a].cells[cell_index] =
                            [(IF r[2] THEN r[1] ELSE overwritten) EXCEPT !.locked = FALSE]]
           /\ th' = [th EXCEPT ![t] =
                        Returned(t, IF r[2] THEN <<"Ok">>
                                    ELSE <<"Err", th[t].key, th[t].value>>, <<>>)]
           /\ okCount' = IF r[2] THEN [okCount EXCEPT ![th[t].key] = Min(@ + 1, 2)]
                         ELSE okCount
    /\ UNCHANGED <<array, minimum_capacity, resize_mutex, used, rz>>

\* insert: cell_locker.insert and the result; the locker is dropped (lines 114-118).
InsertCell(t) ==
    /\ th[t].pc = "insert"
    /\ LET a == th[t].locker[1]
           cell_index == th[t].locker[2]
           r == CellInsert(arrays[a].cells[cell_index], th[t].key, th[t].value,
                           th[t].partial_hash)
       IN  /\ arrays' = [arrays EXCEPT ![a].cells[cell_index] =
                            [r[1] EXCEPT !.locked = FALSE]]
           /\ th' = [th EXCEPT ![t] =
                        Returned(t, IF r[2] THEN <<"Ok">>
                                    ELSE <<"Err", th[t].key, th[t].value>>, <<>>)]
           /\ okCount' = IF r[2] THEN [okCount EXCEPT ![th[t].key] = Min(@ + 1, 2)]
                         ELSE okCount
    /\ UNCHANGED <<array, minimum_capacity, resize_mutex, used, rz>>

\* The cells reachable from the array pointer: those of the current array and of
\* the old array attached to it.
ReachableCells ==
    {<<array, i>> : i \in DOMAIN arrays[array].cells}
    \cup (IF arrays[array].old_array = NullArray THEN {}
          ELSE {<<arrays[array].old_array, i>> :
                    i \in DOMAIN arrays[arrays[array].old_array].cells})

LiveCells == {c \in ReachableCells : ~arrays[c[1]].cells[c[2]].killed}

\* The live entries, each with the cell it is in.
LiveEntries ==
    UNION {{<<c, e>> : e \in arrays[c[1]].cells[c[2]].entries} : c \in LiveCells}

LiveCount == Cardinality(LiveEntries)

\* remove (lines 128-130). pre: the key had a live entry when remove was called.
Remove(t) ==
    /\ Callable(t)
    /\ \E k \in Usable :
        th' = [th EXCEPT ![t] =
                [IdleThread EXCEPT !.pc = "ret", !.op = "remove",
                    !.res = <<FALSE>>,
                    !.pre = <<\E x \in LiveEntries : x[2][1] = k>>]]
    /\ UNCHANGED <<arrays, array, minimum_capacity, resize_mutex, okCount, used, rz>>

\* read (lines 142-144). pre: an insert of the key had returned Ok when read was
\* called.
Read(t) ==
    /\ Callable(t)
    /\ \E k \in Usable :
        th' = [th EXCEPT ![t] =
                [IdleThread EXCEPT !.pc = "ret", !.op = "read",
                    !.res = <<"None">>,
                    !.pre = <<okCount[k] > 0>>]]
    /\ UNCHANGED <<arrays, array, minimum_capacity, resize_mutex, okCount, used, rz>>

\* The predicates a caller passes to retain.
Predicates == {"none", "odd"}

Holds(pred, key, value) ==
    CASE pred = "none" -> FALSE
      [] pred = "odd" -> value % 2 = 1

\* retain (lines 154-156). pre: the live entries when retain was called, and those
\* of them the predicate rejects.
Retain(t) ==
    /\ Callable(t)
    /\ \E f \in Predicates :
        th' = [th EXCEPT ![t] =
                [IdleThread EXCEPT !.pc = "ret", !.op = "retain", !.pred = f,
                    !.res = <<0, 0>>,
                    !.pre = <<LiveCount,
                              Cardinality({x \in LiveEntries :
                                              ~Holds(f, x[2][1], x[2][2])})>>]]
    /\ UNCHANGED <<arrays, array, minimum_capacity, resize_mutex, okCount, used, rz>>

\* clear (lines 164-166): retain(|_, _| false).1
Clear(t) ==
    /\ Callable(t)
    /\ th' = [th EXCEPT ![t] =
                [IdleThread EXCEPT !.pc = "ret", !.op = "clear", !.pred = "none",
                    !.res = <<0>>, !.pre = <<LiveCount>>]]
    /\ UNCHANGED <<arrays, array, minimum_capacity, resize_mutex, okCount, used, rz>>

\* hist is recorded under SpecInsert only.
Next ==
    \E t \in Threads :
        \/ InsertCall(t) /\ UNCHANGED hist
        \/ LockLoad(t) /\ UNCHANGED hist
        \/ LockRehash(t) /\ UNCHANGED hist
        \/ LockOld(t) /\ UNCHANGED hist
        \/ LockKill(t) /\ UNCHANGED hist
        \/ LockCell(t) /\ UNCHANGED hist
        \/ Drop(t) /\ UNCHANGED hist
        \/ ReserveLoad(t) /\ UNCHANGED hist
        \/ Sample(t) /\ UNCHANGED hist
        \/ ResizeLoad(t) /\ UNCHANGED hist
        \/ ResizeSwap(t) /\ UNCHANGED hist
        \/ ResizeCheck(t) /\ UNCHANGED hist
        \/ ResizeStore(t) /\ UNCHANGED hist
        \/ ResizeUnlock(t) /\ UNCHANGED hist
        \/ InsertCell(t) /\ UNCHANGED hist
        \/ Remove(t) /\ UNCHANGED hist
        \/ Read(t) /\ UNCHANGED hist
        \/ Retain(t) /\ UNCHANGED hist
        \/ Clear(t) /\ UNCHANGED hist

Spec == Init /\ [][Next]_vars

(***************************************************************************)
(* The capacity computation of resize taken alone: it is applied to array  *)
(* capacities, minimum capacities and entry counts drawn from bounded sets. *)
(***************************************************************************)
\* The capacities an Array can have: a power-of-two number of cells.
ArrayCapacities ==
    {c \in {Pow2(j) : j \in 0..(UsizeBits - 1)} : c >= DEFAULT_CAPACITY}

\* Minimum capacities of an index whose array has capacity c.
MinimumCapacities(c) ==
    {DEFAULT_CAPACITY, c} \cup (IF c > DEFAULT_CAPACITY THEN {c - c \div 4} ELSE {})

\* Entry counts: around the powers of two and around 1/8, 7/8 and 9/8 of c.
EntryCounts(c) ==
    ({Pow2(j) + d : j \in 0..UsizeBits, d \in {-1, 0, 1}}
        \cup {(c \div 8) * m + d : m \in {1, 7, 9}, d \in {-1, 0, 1}})
    \cap (0..(UsizeMod - 1))

InitResize ==
    /\ New(DEFAULT_CAPACITY)
    /\ \E c \in ArrayCapacities :
        \E m \in MinimumCapacities(c), n \in EntryCounts(c) :
            rz = [capacity |-> c, minimum_capacity |-> m, n |-> n, by |-> "none",
                  new_capacity |-> 0, overflow |-> FALSE]

\* The computation of lines 343-370 applied to the estimate rz.n.
ResizeFromEstimate ==
    /\ rz.by = "none"
    /\ rz' = [rz EXCEPT
                !.by = "estimate",
                !.new_capacity = NewCapacity(rz.capacity, rz.n, rz.minimum_capacity),
                !.overflow = NewCapacityOverflows(rz.capacity, rz.n)]
    /\ UNCHANGED <<arrays, array, minimum_capacity, resize_mutex, th, okCount, used, hist>>

\* The computation of lines 339-370 applied to an array of capacity rz.capacity
\* that holds rz.n entries.
ResizeFromArray ==
    /\ rz.by = "none"
    /\ LET num_cells == rz.capacity \div ARRAY_SIZE
       IN  rz' = [rz EXCEPT
                !.by = "array",
                !.new_capacity =
                    ResizeDecision(rz.capacity, num_cells, rz.minimum_capacity),
                !.overflow =
                    NewCapacityOverflows(rz.capacity, EstimatedNumEntries(num_cells))]
    /\ UNCHANGED <<arrays, array, minimum_capacity, resize_mutex, th, okCount, used, hist>>

NextResize == ResizeFromEstimate \/ ResizeFromArray

SpecResize == InitResize /\ [][NextResize]_vars

(***************************************************************************)
(* insert and drop taken alone, with the history each thread needs to      *)
(* compare what it observes with what it observed before.                  *)
(***************************************************************************)
\* Capacities given to HashIndex::new.
InsertCapacities == InitCapacities \cup {SignalCapacity}

InitInsert ==
    /\ \E capacity \in InsertCapacities : New(capacity)
    /\ rz = <<>>

\* The array pointer and the migration state, as a number that grows with every
\* change of them: arrays installed, cells killed, old arrays detached.
Version ==
    Len(arrays)
    + Cardinality({c \in UNION {{<<a, i>> : i \in DOMAIN arrays[a].cells} : a \in DOMAIN arrays} :
                      arrays[c[1]].cells[c[2]].killed})
    + Cardinality({a \in DOMAIN arrays : a > 1 /\ arrays[a].old_array = NullArray})

\* What thread t remembers after a step of its call.
Observe(t) ==
    hist' = [hist EXCEPT ![t] =
        IF th'[t].pc \in {"lock", "ret"} THEN NoHist
        ELSE IF th'[t].pc = "drop" THEN [@ EXCEPT !.seen = Version]
        ELSE IF th[t].pc = "rsv_load" THEN [@ EXCEPT !.reserve_array = array]
        ELSE @]

\* Drop::drop (line 394), called by the thread that owns the index when no call
\* is in progress: the body is empty.
DropIndex(t) ==
    /\ \A u \in Threads : Callable(u)
    /\ th' = [th EXCEPT ![t] = [IdleThread EXCEPT !.pc = "dropped", !.op = "drop"]]
    /\ UNCHANGED <<arrays, array, minimum_capacity, resize_mutex, okCount, used, hist, rz>>

NextInsert ==
    \E t \in Threads :
        \/ InsertCall(t) /\ Observe(t)
        \/ LockLoad(t) /\ Observe(t)
        \/ LockRehash(t) /\ Observe(t)
        \/ LockOld(t) /\ Observe(t)
        \/ LockKill(t) /\ Observe(t)
        \/ LockCell(t) /\ Observe(t)
        \/ Drop(t) /\ Observe(t)
        \/ ReserveLoad(t) /\ Observe(t)
        \/ Sample(t) /\ Observe(t)
        \/ ResizeLoad(t) /\ Observe(t)
        \/ ResizeSwap(t) /\ Observe(t)
        \/ ResizeCheck(t) /\ Observe(t)
        \/ ResizeStore(t) /\ Observe(t)
        \/ ResizeUnlock(t) /\ Observe(t)
        \/ InsertCell(t) /\ Observe(t)
        \/ DropIndex(t)

\* The index built by new(capacity) once thread 1 has called insert(k, 1) for
\* every key k of the key order, one call after the other, and each has returned
\* Ok.
Filled(capacity) ==
    LET initial_capacity == Max(capacity, DEFAULT_CAPACITY)
        a == ArrayNew(initial_capacity, NullArray)
    IN  /\ arrays = <<[a EXCEPT !.cells =
                        [i \in DOMAIN a.cells |->
                            [EmptyCell EXCEPT !.entries =
                                {<<k, 1, HashTable[k][2]>> :
                                    k \in {x \in Keys :
                                            CalculateCellIndex(a, HashTable[x][1]) = i}}]]]>>
        /\ array = 1
        /\ minimum_capacity = initial_capacity
        /\ resize_mutex = FALSE
        /\ th = [t \in Threads |->
                    IF t = 1
                    THEN [IdleThread EXCEPT !.pc = "ret", !.op = "insert",
                                            !.key = KeyOrder[Len(KeyOrder)],
                                            !.value = 1, !.res = <<"Ok">>]
                    ELSE IdleThread]
        /\ okCount = [k \in Keys |-> 1]
        /\ used = Len(KeyOrder)
        /\ hist = [t \in Threads |-> NoHist]

InitFilled ==
    /\ \E capacity \in InitCapacities : Filled(capacity)
    /\ rz = <<>>

\* The steps of thread t inside a call of insert.
CallStep(t) ==
    \/ LockLoad(t) /\ Observe(t)
    \/ LockRehash(t) /\ Observe(t)
    \/ LockOld(t) /\ Observe(t)
    \/ LockKill(t) /\ Observe(t)
    \/ LockCell(t) /\ Observe(t)
    \/ Drop(t) /\ Observe(t)
    \/ ReserveLoad(t) /\ Observe(t)
    \/ Sample(t) /\ Observe(t)
    \/ ResizeLoad(t) /\ Observe(t)
    \/ ResizeSwap(t) /\ Observe(t)
    \/ ResizeCheck(t) /\ Observe(t)
    \/ ResizeStore(t) /\ Observe(t)
    \/ ResizeUnlock(t) /\ Observe(t)
    \/ InsertCell(t) /\ Observe(t)

SpecInsert == InitInsert /\ [][NextInsert]_vars

\* Fair scheduling: a thread inside a call, whose next step is possible again and
\* again, takes it; a thread that waits for a cell lock gets it if the lock is
\* free again and again. Callers need not call. The index starts filled.
FairInsert ==
    InitFilled /\ [][NextInsert]_vars /\ \A t \in Threads : SF_vars(CallStep(t))

(***************************************************************************)
(* The claims.                                                             *)
(***************************************************************************)
InsertReturned(t) == th[t].pc = "ret" /\ th[t].op = "insert"

\* C1 (uniqueness): no key has two insert calls that returned Ok (no key is ever
\* removed), and an insert that returns Err hands back the key and value it was
\* given.
Uniqueness ==
    /\ \A k \in Keys : okCount[k] <= 1
    /\ \A t \in Threads :
        InsertReturned(t) /\ th[t].res # <<"Ok">> =>
            th[t].res = <<"Err", th[t].key, th[t].value>>

\* The entries of every cell of every array, locks left out.
Contents ==
    [a \in DOMAIN arrays |->
        [i \in DOMAIN arrays[a].cells |->
            <<arrays[a].cells[i].entries, arrays[a].cells[i].killed>>]]

\* C2 (a failed insert changes nothing): the step in which an insert returns Err
\* finds an entry for the key in the locked cell, leaves the entries of every cell
\* as they are, counts no success, and returns the key and value passed in.
FailedInsertChangesNothing ==
    [][\A t \in Threads :
          (th[t].pc = "insert" /\ th'[t].pc = "ret" /\ th'[t].res # <<"Ok">>) =>
              /\ HasKey(arrays[th[t].locker[1]].cells[th[t].locker[2]], th[t].key)
              /\ Contents' = Contents
              /\ okCount' = okCount
              /\ th'[t].res = <<"Err", th[t].key, th[t].value>>]_vars

\* C2 witness: an insert of a stored key with another value has returned Err.
FailedInsertSeen ==
    \E t \in Threads :
        /\ InsertReturned(t)
        /\ th[t].res = <<"Err", th[t].key, 2>>
        /\ \E x \in LiveEntries : x[2][1] = th[t].key /\ x[2][2] = 1

LiveOf(k) == {x \in LiveEntries : x[2][1] = k}

\* C5 (resize preserves membership): every key whose insert returned Ok has exactly
\* one entry in the live cells reachable from the array pointer.
MembershipPreserved ==
    \A k \in Keys : okCount[k] >= 1 => Cardinality(LiveOf(k)) = 1

\* What C6 says of one computed capacity.
CapacityBound ==
    /\ rz.new_capacity <= rz.capacity * Pow2(MAX_RESIZING_FACTOR)
    /\ rz.new_capacity <= MaxCapacity
    /\ rz.new_capacity >= rz.minimum_capacity
    /\ ~rz.overflow

TwoGenerations ==
    arrays[array].old_array # NullArray =>
        arrays[arrays[array].old_array].old_array = NullArray

\* C8 (growth under load): resize, run on an array that holds at least 7/8 of its
\* capacity in entries and is below the maximum capacity, computes a larger
\* capacity: the double up to 9/8, else the next power of two above the count,
\* at most 2^MAX_RESIZING_FACTOR times the capacity.
GrowthUnderLoad ==
    (rz.by = "array" /\ 8 * rz.n >= 7 * rz.capacity /\ rz.capacity < MaxCapacity
        /\ rz.n <= MaxCapacity) =>
        /\ rz.new_capacity > rz.capacity
        /\ rz.new_capacity =
            IF 8 * rz.n <= 9 * rz.capacity THEN 2 * rz.capacity
            ELSE Min(PowerOfTwoAtLeast(rz.n + 1, 1),
                     rz.capacity * Pow2(MAX_RESIZING_FACTOR))

MixedHash == [k \in Keys \cup SignalKeys |-> Bitmix(Finish(k))]

\* C10 (partial hash): every stored entry carries the low 8 bits of the mixed hash
\* of its key and sits in the cell that hash selects, in every array; and every
\* insert in progress holds that hash and partial hash of its key.
PartialHashSound ==
    /\ \A a \in DOMAIN arrays : \A i \in DOMAIN arrays[a].cells :
        \A e \in arrays[a].cells[i].entries :
            /\ e[3] = MixedHash[e[1]][1]
            /\ i = Mod64(MixedHash[e[1]], arrays[a].num_cells)
    /\ \A t \in Threads :
        th[t].op = "insert" /\ th[t].pc # "ret" =>
            th[t].hsh = MixedHash[th[t].key] /\ th[t].partial_hash = MixedHash[th[t].key][1]

\* C10 witness: an array installed by resize holds entries that were all migrated
\* from cells of the first array, now killed, while an insert is on a retry of
\* reserve's loop.
MigratedEntrySeen ==
    /\ \E a \in DOMAIN arrays : a > 1 /\ \E i \in DOMAIN arrays[a].cells :
        /\ Cardinality(arrays[a].cells[i].entries) >= 2
        /\ \A e \in arrays[a].cells[i].entries :
              arrays[1].cells[Mod64(MixedHash[e[1]], arrays[1].num_cells)].killed
    /\ \E t \in Threads : th[t].op = "insert" /\ th[t].resize_triggered

\* Thread t is in resize's guarded section: it has taken resize_mutex and its
\* scope guard has not run yet (lines 328-383).
InResize(t) == th[t].pc \in {"rz_check", "rz_store", "rz_unlock"}

\* C11 (resize mutual exclusion): at most one thread is in resize's guarded
\* section and resize_mutex is held while it is; the array pointer changes only in
\* the store step of the thread in the guarded section, which comes straight from
\* the capacity decision and leads to the unlock, so at most once per resize call;
\* a thread whose swap finds the flag held leaves resize in that step and changes
\* neither the array pointer, the arrays nor the flag.
ResizeMutualExclusion ==
    /\ [](\A t, u \in Threads :
            InResize(t) => resize_mutex /\ (InResize(u) => u = t))
    /\ [][/\ array' # array =>
                \E t \in Threads :
                    /\ th[t].pc = "rz_store" /\ th'[t].pc = "rz_unlock"
                    /\ resize_mutex /\ resize_mutex'
          /\ \A t \in Threads :
                /\ th'[t].pc = "rz_store" /\ th[t].pc # "rz_store" =>
                      th[t].pc = "rz_check" /\ array' = array
                /\ th[t].pc = "rz_swap" /\ resize_mutex /\ th'[t] # th[t] =>
                      /\ th'[t].pc = "lock"
                      /\ array' = array /\ arrays' = arrays
                      /\ resize_mutex']_vars

\* C11 witness: one thread has stored a new array and still holds the flag, while
\* the other is at its swap, which finds the flag held.
FlagContentionSeen ==
    \E t, u \in Threads :
        /\ th[t].pc = "rz_unlock" /\ th[t].memory_ordering = "Release"
        /\ array = Len(arrays) /\ array > 1
        /\ th[u].pc = "rz_swap" /\ resize_mutex

\* C12 (stale-decision guard): a resize that holds the flag and goes on to
\* allocate does so only if the array pointer is still the array its caller,
\* reserve, sampled; if the pointer has changed since, resize aborts.
StaleDecisionGuard ==
    \A t \in Threads :
        th[t].pc = "rz_store" => hist[t].reserve_array = array

\* C13 (the resize flag is never left held): whenever no thread is in resize's
\* guarded section resize_mutex is false; a thread leaves the section only by the
\* scope guard's store, which clears the flag, whether resize aborted on a stale
\* pointer, kept the capacity or installed a new array.
FlagNeverLeftHeld ==
    /\ []((\A t \in Threads : ~InResize(t)) => ~resize_mutex)
    /\ [][\A t \in Threads :
            /\ InResize(t) /\ th'[t].pc # th[t].pc =>
                  \/ th[t].pc = "rz_check" /\ th'[t].pc \in {"rz_store", "rz_unlock"}
                  \/ th[t].pc = "rz_store" /\ th'[t].pc = "rz_unlock"
                  \/ th[t].pc = "rz_unlock" /\ th'[t].pc = "lock" /\ ~resize_mutex'
            /\ InResize(t) /\ th[t].pc # "rz_unlock" => resize_mutex']_vars

\* C13 witness: a resize has installed an array and left, the flag is free, and
\* a later resize is at its swap.
FlagFreeAfterResizeSeen ==
    /\ Len(arrays) >= 2
    /\ ~resize_mutex
    /\ \A t \in Threads : ~InResize(t)
    /\ \E t \in Threads : th[t].pc = "rz_swap" /\ th[t].current_array = array

\* C14 (unlock ordering): the step that stores the new array sets the guard's
\* ordering to Release and leaves the flag held, so the array is stored before the
\* flag is cleared; a resize that goes to its unlock without storing leaves the
\* array pointer alone and keeps the ordering Relaxed; the unlock, reached in
\* these two ways only, clears the flag with the ordering so chosen and does not
\* move the array pointer.
UnlockOrdering ==
    [][\A t \in Threads :
          /\ th[t].pc = "rz_store" /\ th'[t].pc = "rz_unlock" =>
                /\ array' # array /\ arrays'[array'].old_array = th[t].current_array
                /\ th'[t].memory_ordering = "Release"
                /\ resize_mutex'
          /\ th[t].pc = "rz_check" /\ th'[t].pc = "rz_unlock" =>
                /\ array' = array /\ arrays' = arrays
                /\ th'[t].memory_ordering = "Relaxed"
                /\ resize_mutex'
          /\ th'[t].pc = "rz_unlock" /\ th[t].pc # "rz_unlock" =>
                th[t].pc \in {"rz_store", "rz_check"}
          /\ th[t].pc = "rz_unlock" =>
                th'[t].memory_ordering \in {th[t].memory_ordering, "none"}
          /\ th[t].pc = "rz_unlock" /\ th'[t].pc # "rz_unlock" =>
                /\ th[t].memory_ordering \in {"Relaxed", "Release"}
                /\ array' = array
                /\ ~resize_mutex']_vars

\* C14 witness: a resize has stored its new array and is about to clear the flag
\* with release ordering.
ReleaseUnlockSeen ==
    \E t \in Threads :
        /\ th[t].pc = "rz_unlock" /\ th[t].memory_ordering = "Release"
        /\ array > 1 /\ arrays[array].old_array = th[t].current_array
        /\ resize_mutex

\* The cell of array a that the hash h selects.
CellOf(a, h) == arrays[a].cells[CalculateCellIndex(arrays[a], h)]

\* C15 (migrate-before-lock): the step in which lock locks a cell of array A
\* locks the cell A's calculate_cell_index selects for the hash, and if A had an
\* old array attached when lock loaded it, that array's cell for the hash is
\* killed by then; and while a writer holds the cell it inserts into, no unkilled
\* cell of an older array holds an entry for its key.
MigrateBeforeLock ==
    /\ [][\A t \in Threads :
            th[t].pc = "lock_cell" /\ th'[t].pc \in {"drop", "insert"} =>
                /\ th'[t].locker = <<th[t].current_array,
                                     CalculateCellIndex(arrays[th[t].current_array], th[t].hsh)>>
                /\ th'[t].cell_index = th'[t].locker[2]
                /\ arrays'[th'[t].locker[1]].cells[th'[t].locker[2]].locked
                /\ th[t].old_array # NullArray => CellOf(th[t].old_array, th[t].hsh).killed]_vars
    /\ [](\A t \in Threads :
            th[t].pc = "insert" =>
                \A o \in 1..(th[t].locker[1] - 1) :
                    CellOf(o, th[t].hsh).killed \/ ~HasKey(CellOf(o, th[t].hsh), th[t].key))

\* Thread t restarts lock's loop in this step.
LockRestart(t) == th[t].pc \in {"rehash", "lock_cell"} /\ th'[t].pc = "lock"

\* Thread t goes back to the head of reserve's loop in this step.
ReserveRetry(t) ==
    th[t].pc \in {"rsv_load", "sample", "rz_swap", "rz_unlock"} /\ th'[t].pc = "lock"

\* lock restarts only on a change: partial_rehash has just changed the migration
\* state, or the array lock loaded is no longer the current one.
LockRestartOnChange(t) ==
    LockRestart(t) =>
        IF th[t].pc = "rehash" THEN Version' # Version
        ELSE /\ th[t].current_array # array
             /\ CellOf(th[t].current_array, th[t].hsh).killed

\* C16 as stated (retry only on change): every restart of lock's loop and every
\* retry of reserve's loop finds the array pointer or the migration state changed
\* since the previous iteration.
RetryOnlyOnChange ==
    [][\A t \in Threads :
          /\ LockRestartOnChange(t)
          /\ ReserveRetry(t) => Version' # hist[t].seen]_vars

\* C16 amended: every restart of lock's loop finds a change; reserve's loop is
\* retried after the resize signal whether or not anything changed, and the
\* signal is tripped only by a call that has not tripped it before.
RetryOnChangeOrSignal ==
    [][\A t \in Threads :
          /\ LockRestartOnChange(t)
          /\ ReserveRetry(t) => th[t].resize_triggered /\ th'[t].resize_triggered
          /\ th'[t].pc = "drop" /\ th[t].pc # "drop" => ~th[t].resize_triggered
          /\ th[t].resize_triggered /\ th'[t].pc # "ret" => th'[t].resize_triggered]_vars

\* C16 witness: a call that has retried reserve's loop after the signal has since
\* restarted lock's loop because partial_rehash made progress.
RetriedAndRestartedSeen ==
    \E t \in Threads :
        /\ th[t].pc = "lock" /\ th[t].resize_triggered
        /\ th[t].current_array # NullArray

\* Thread t is between the drop of the signalling cell's lock and the retry of
\* reserve's loop: it samples or runs resize (lines 251-266, 317-385).
InSignalPath(t) ==
    th[t].pc \in {"rsv_load", "sample", "rz_load", "rz_swap", "rz_check", "rz_store", "rz_unlock"}

\* lock returns to thread t, in this step, a cell that holds ARRAY_SIZE entries.
LockReturnsFullCell(t) ==
    /\ th[t].pc = "lock_cell" /\ th'[t].pc \in {"drop", "insert"}
    /\ NumEntries(CellOf(th[t].current_array, th[t].hsh)) >= ARRAY_SIZE

\* After the signal the caller holds no cell lock while it samples and resizes,
\* and it leaves that path only to retry reserve's loop.
SignalDropsLock ==
    /\ [](\A t \in Threads : InSignalPath(t) => th[t].locker = <<>> /\ th[t].resize_triggered)
    /\ [][\A t \in Threads :
            /\ th[t].pc = "drop" /\ th'[t].pc # "drop" =>
                  /\ th'[t].pc = "rsv_load"
                  /\ ~arrays'[th[t].locker[1]].cells[th[t].locker[2]].locked
            /\ InSignalPath(t) /\ ~InSignalPath(t)' => th'[t].pc = "lock"]_vars

\* C17 as stated (resize signal): on the first pass, for every cell index, a full
\* cell of the current array returned by lock trips the signal; the lock is
\* released before sampling and resize, and the loop is retried.
ResizeSignalEveryCell ==
    /\ [][\A t \in Threads :
            LockReturnsFullCell(t) /\ ~th[t].resize_triggered
                /\ th[t].current_array = array => th'[t].pc = "drop"]_vars
    /\ SignalDropsLock

\* C17 amended: the signal is tripped exactly by a first-pass lock that returns a
\* full cell whose index is below ARRAY_SIZE; the lock is released before
\* sampling and resize, and the loop is retried.
ResizeSignalLowCells ==
    /\ [][\A t \in Threads :
            th[t].pc = "lock_cell" /\ th'[t].pc \in {"drop", "insert"} =>
                (th'[t].pc = "drop" <=>
                    /\ LockReturnsFullCell(t)
                    /\ ~th[t].resize_triggered
                    /\ CalculateCellIndex(arrays[th[t].current_array], th[t].hsh) < ARRAY_SIZE)]_vars
    /\ SignalDropsLock

\* C17 witness: a call has tripped the signal on a full cell, released it and is
\* sampling the array.
SignalSamplingSeen ==
    \E t \in Threads :
        /\ th[t].pc = "sample" /\ th[t].resize_triggered /\ th[t].locker = <<>>
        /\ NumEntries(CellOf(array, th[t].hsh)) >= ARRAY_SIZE
        /\ ~CellOf(array, th[t].hsh).locked

\* The entries thread t has counted once it has read the cell its sampling loop
\* is at.
Counted(t) ==
    th[t].num_entries + NumEntries(arrays[th[t].current_array].cells[th[t].i])

\* The capacity of the cells reserve samples in the array thread t loaded.
SampledCapacity(t) == NumSampleSize(arrays[th[t].current_array]) * ARRAY_SIZE

\* C18 (resize gating in reserve): after the signal reserve samples the array it
\* loads only if that array has no old array attached, and goes back to lock
\* otherwise; it calls resize only from the sampling loop, when the entries it
\* has counted exceed 7/8 of the sampled capacity; it ends the loop without
\* calling resize when all the sampled cells are read and the count is at or
\* below 7/8 of the sampled capacity.
ResizeGating ==
    /\ [](\A t \in Threads :
            th[t].pc = "sample" =>
                /\ arrays[th[t].current_array].old_array = NullArray
                /\ th[t].i < NumSampleSize(arrays[th[t].current_array]))
    /\ [][\A t \in Threads :
            /\ th[t].pc = "rsv_load" /\ th'[t].pc # "rsv_load" =>
                  IF arrays[array].old_array # NullArray
                  THEN th'[t].pc = "lock"
                  ELSE /\ th'[t].pc = "sample" /\ th'[t].current_array = array
                       /\ th'[t].i = 0 /\ th'[t].num_entries = 0
            /\ th'[t].pc = "rz_load" /\ th[t].pc # "rz_load" =>
                  /\ th[t].pc = "sample"
                  /\ 8 * Counted(t) > 7 * SampledCapacity(t)
            /\ th[t].pc = "sample" /\ th'[t].pc \notin {"sample", "rz_load"} =>
                  /\ th'[t].pc = "lock"
                  /\ th[t].i + 1 = NumSampleSize(arrays[th[t].current_array])
                  /\ 8 * Counted(t) <= 7 * SampledCapacity(t)]_vars

\* C18 witness: reserve has sampled an array without an old array, found the
\* sampled cells loaded above 7/8 and is entering resize.
ResizeCalledSeen ==
    \E t \in Threads :
        /\ th[t].pc = "rz_load" /\ th[t].resize_triggered
        /\ hist[t].reserve_array = array
        /\ arrays[array].old_array = NullArray
        /\ 8 * NumEntries(arrays[array].cells[0]) > 7 * NumSampleSize(arrays[array]) * ARRAY_SIZE

\* The array generations the index retains: the array its pointer holds and the
\* old array attached to it.
Retained ==
    IF array = NullArray THEN {}
    ELSE {array} \cup ({arrays[array].old_array} \ {NullArray})

\* C20 (drop reclaims storage): once the index is dropped it retains no array:
\* the current array and any attached old array have been reclaimed.
DropReclaims == Dropped => Retained = {}

\* Thread t is inside a call.
InCall(t) == th[t].pc \notin {"idle", "ret", "dropped"}

\* Thread t is at the store of one more array than the model keeps: the resizes
\* are not finitely many.
StoreBeyondBound(t) == th[t].pc = "rz_store" /\ Len(arrays) >= MaxArrays

====
